---------------------------- MODULE Spec2Model ----------------------------
(***************************************************************************)
(* Model of the dgl_chem / grape pipeline:                                 *)
(*   - filter_smiles            (dglchem/utils/data.py)                    *)
(*   - split_data, MakeGraphDataSet.__init__ / get_splits                  *)
(*   - train_model, test_model  (grape/utils/model_train_test.py)          *)
(* Each component has its own specification (SpecFilter, SpecSplit,        *)
(* SpecTrain, SpecTest); the variables of the other components stay idle.  *)
(***************************************************************************)
EXTENDS Integers, Sequences, FiniteSets, TLC

VARIABLES
    \* ---- filter_smiles -------------------------------------------------
    smiles,           \* argument: list of SMILES strings
    target,           \* argument: list of targets, parallel to smiles
    allowed_atoms,    \* argument: None or a list of atom symbols
    fpc,              \* position in filter_smiles: "idle", "loop", "done"
    fi,               \* number of elements of `smiles` the for loop has consumed
    indices_to_drop,  \* the list indices_to_drop (duplicates kept)
    out_smiles,       \* first returned list
    out_target,       \* second returned list
    load_pc,          \* data_load.filter_smiles: "idle", "new", "done"
    load_ret,         \* the list data_load.filter_smiles returned
    \* ---- train_model ---------------------------------------------------
    epochs, patience, early_stopping,   \* arguments
    n_train, n_val,   \* len(train_data_loader), len(val_data_loader)
    tpc,              \* position: "idle", "head", "train", "val", "done"
    ep,               \* number of values range(epochs) has yielded (i = ep - 1)
    bidx,             \* number of batches of the running pass already handled
    temp,             \* the array temp
    train_loss, val_loss,
    loss_cut, counter,
    broke,            \* TRUE once the break of line 106 was taken
    zero_grads, opt_steps,  \* calls of optimizer.zero_grad() / optimizer.step()
    \* ---- split_data / MakeGraphDataSet ---------------------------------
    data,             \* self.data: the (filtered) list of samples
    split,            \* argument split
    split_type, split_frac, custom_split,   \* arguments (None when omitted)
    spc,              \* "idle", "new", "constructed", "failed"
    exc,              \* the exception that ended the last call, or NoExc
    self_split_type, self_split_frac,       \* attributes set by __init__
    self_train, self_val, self_test,        \* attributes set by __init__
    splits_ret,       \* value returned by the last get_splits()
    \* ---- test_model ----------------------------------------------------
    test_data,        \* argument test_data_loader: the list of test samples
    batch_size,       \* argument batch_size
    loss_given,       \* loss_func is not None
    epc,              \* position: "idle", "loop", "done"
    eidx,             \* number of batches handled
    etemp,            \* the array temp of test_model
    preds, latents,   \* running concatenations
    test_ret,         \* the returned tuple
    \* ---- pred_metric ---------------------------------------------------
    prediction,       \* argument prediction (a vector)
    y_target,         \* argument target (a vector)
    metrics,          \* argument metrics: a string or a list of strings
    mpc,              \* position: "idle", "loop", "done"
    mlist,            \* the local `metrics` after lines 214-218
    mi,               \* number of elements of mlist the for loop has consumed
    results,          \* the dict results
    metric_ret,       \* the returned value
    \* ---- GroupGAT_Ensemble / old_GroupGAT_Ensemble / CpLayer -----------
    ens_class,        \* "new": GroupGAT_Ensemble, "old": old_GroupGAT_Ensemble
    model_keys,       \* the keys of self.models, in insertion order
    sub_out,          \* what each sub-model returns for the input data
    global_T,         \* data.global_feats
    cpc,              \* position: "idle", "eval", "done"
    ci,               \* number of sub-models evaluated
    outputs,          \* the sub-model outputs collected by forward
    calls,            \* how often each sub-model was evaluated
    cp_trace,         \* the intermediate values of the last CpLayer.forward
    ens_ret,          \* the value forward returned, or the exception
    \* ---- DataSet -------------------------------------------------------
    file_path, ds_smiles, ds_target, ds_allowed,   \* arguments of DataSet()
    pickles,          \* the pickle files on disk: path -> pickled bytes
    dpc,              \* "idle", "new", "constructed", "failed"
    ds_exc,           \* the exception that ended __init__, or NoExc
    self_root, self_data, self_smiles, self_target, \* attributes (None: not set)
    saved_path,       \* the file the last save() wrote, None before any save
    lpc,              \* a second DataSet(file_path = saved_path): "none", "loaded", "failed"
    loaded_data       \* self.data of that second DataSet

filterVars == <<smiles, target, allowed_atoms, fpc, fi, indices_to_drop,
                out_smiles, out_target, load_pc, load_ret>>
trainVars  == <<epochs, patience, early_stopping, n_train, n_val, tpc, ep, bidx,
                temp, train_loss, val_loss, loss_cut, counter, broke,
                zero_grads, opt_steps>>
splitVars  == <<data, split, split_type, split_frac, custom_split, spc, exc,
                self_split_type, self_split_frac, self_train, self_val,
                self_test, splits_ret>>
testVars   == <<test_data, batch_size, loss_given, epc, eidx, etemp, preds, latents,
                test_ret>>
metricVars == <<prediction, y_target, metrics, mpc, mlist, mi, results, metric_ret>>
cpVars     == <<ens_class, model_keys, sub_out, global_T, cpc, ci, outputs, calls,
                cp_trace, ens_ret>>
dsVars     == <<file_path, ds_smiles, ds_target, ds_allowed, pickles, dpc, ds_exc,
                self_root, self_data, self_smiles, self_target, saved_path, lpc,
                loaded_data>>
vars == <<filterVars, trainVars, splitVars, testVars, metricVars, cpVars, dsVars>>

-----------------------------------------------------------------------------
(* Python's None and a present value *)
None == [some |-> FALSE]
Some(v) == [some |-> TRUE, val |-> v]

(* Bounds of the model *)
MaxLen == 3          \* longest SMILES list
MaxEpochs == 3       \* largest value of the argument epochs
MaxPatience == 2     \* largest value of the argument patience
MaxLoss == 1         \* per-batch validation losses are drawn from 0..MaxLoss
MaxData == 2         \* largest dataset handed to split_data
MaxSamples == 3      \* longest list of test samples
MaxBatchSize == 2    \* largest batch_size of test_model
MaxMetrics == 2      \* longest list of metric names
MaxVec == 2          \* longest prediction / target vector

RECURSIVE SumSeq(_)
SumSeq(s) == IF s = <<>> THEN 0 ELSE Head(s) + SumSeq(Tail(s))

SeqsUpTo(S, n) == UNION {[1..k -> S] : k \in 0..n}

-----------------------------------------------------------------------------
(*                              filter_smiles                              *)

DefaultAllowedAtoms ==
    <<"B", "C", "N", "O", "F", "Si", "P", "S", "Cl", "As", "Se", "Br", "Te", "I", "At">>

(* The allow-lists drawn as inputs: omitted, or a caller's narrower list *)
AllowedChoices == {None, Some(<<"C", "N">>)}

(* The targets drawn as inputs *)
Targets == {10, 20}

(* The SMILES strings drawn as inputs *)
SmilesPool == {"CC", "CCO", "C", "C(", "[Na]O[Na]"}

(* Chem.MolFromSmiles on the strings of SmilesPool: None for a string that does
   not parse, else the molecule, given by the symbols of its atoms in order *)
MolFromSmiles(s) ==
    CASE s = "CC"        -> Some(<<"C", "C">>)
      [] s = "CCO"       -> Some(<<"C", "C", "O">>)
      [] s = "C"         -> Some(<<"C">>)
      [] s = "[Na]O[Na]" -> Some(<<"Na", "O", "Na">>)
      [] OTHER           -> None

GetAtoms(mol) == mol.val

GetNumHeavyAtoms(mol) == Cardinality({k \in DOMAIN mol.val : mol.val[k] # "H"})

InList(x, l) == \E k \in DOMAIN l : l[k] = x

(* allowed_atoms after the default of lines 54-56 *)
EffectiveAllowed(a) == IF a = None THEN DefaultAllowedAtoms ELSE a.val

(* pd.DataFrame({'smiles': smiles, 'target': target}): rows labelled 0..n-1 *)
DataFrame(s, t) == [k \in DOMAIN s |-> [smiles |-> s[k], target |-> t[k]]]

DfSmiles(df) == [k \in DOMAIN df |-> df[k].smiles]
DfTarget(df) == [k \in DOMAIN df |-> df[k].target]

(* list(df.smiles).index(element): 0-based position of the FIRST occurrence *)
(* variant: the 1-based position used as the row label *)
ListIndexOneBased(l, e) ==
    CHOOSE k \in DOMAIN l : l[k] = e /\ \A j \in DOMAIN l : l[j] = e => k <= j
ListIndex(l, e) ==
    (CHOOSE k \in DOMAIN l : l[k] = e /\ \A j \in DOMAIN l : l[j] = e => k <= j) - 1

(* What one iteration of the for loop (lines 61-82) appends to indices_to_drop *)
NewDrops(l, element, allowed) ==
    LET mol == MolFromSmiles(element)
        idx == ListIndex(l, element)
    IN  IF mol = None THEN <<idx>>
        ELSE IF GetNumHeavyAtoms(mol) < 2 THEN <<idx>>
        ELSE LET bad == SelectSeq(GetAtoms(mol), LAMBDA a : ~InList(a, allowed))
             IN  [k \in DOMAIN bad |-> idx]

(* df.drop(indices_to_drop) then reset_index(drop=True): the rows whose label is
   not among the labels, in order, relabelled from 0 *)
RECURSIVE DropFrom(_, _, _)
DropFrom(df, labels, k) ==
    IF k > Len(df) THEN <<>>
    ELSE (IF (k - 1) \in labels THEN <<>> ELSE <<df[k]>>) \o DropFrom(df, labels, k + 1)

DfDrop(df, drops) == DropFrom(df, {drops[k] : k \in DOMAIN drops}, 1)

(* lines 84-87: the returned pair *)
(* variant: the target argument returned as it was given *)
FilterResultRawTarget(df, drops) == <<DfSmiles(DfDrop(df, drops)), DfTarget(df)>>
FilterResult(df, drops) ==
    LET kept == DfDrop(df, drops) IN <<DfSmiles(kept), DfTarget(kept)>>

(* data_load.filter_smiles(smiles, allowed_set), src/dgl_chem/utils/data_load.py *)

(* lines 20-22 *)
(* variant: a default list without 'O' *)
LoadEffectiveAllowedNoOxygen(a) ==
    IF a = None
      THEN <<"B", "C", "N", "F", "Si", "P", "S", "Cl", "As", "Se", "Br", "Te", "I", "At">>
      ELSE a.val
LoadEffectiveAllowed(a) ==
    IF a = None
      THEN <<"B", "C", "N", "O", "F", "Si", "P", "S", "Cl", "As", "Se", "Br", "Te", "I",
             "At">>
      ELSE a.val

(* line 24: pd.DataFrame(smiles, columns=['smiles']) *)
LoadDataFrame(s) == [k \in DOMAIN s |-> [smiles |-> s[k]]]

(* lines 28-45: what one iteration appends to indices_to_drop *)
LoadNewDrops(df, element, allowed_set) ==
    LET mol == MolFromSmiles(element)
        idx == ListIndex(DfSmiles(df), element)
    IN  IF mol = None THEN <<idx>>
        ELSE IF GetNumHeavyAtoms(mol) < 2 THEN <<idx>>
        ELSE LET bad == SelectSeq(GetAtoms(mol), LAMBDA a : ~InList(a, allowed_set))
             IN  [k \in DOMAIN bad |-> idx]

(* lines 25-45: indices_to_drop after the first k elements *)
RECURSIVE LoadDropsUpTo(_, _, _, _)
LoadDropsUpTo(df, s, allowed_set, k) ==
    IF k = 0 THEN <<>>
    ELSE LoadDropsUpTo(df, s, allowed_set, k - 1) \o LoadNewDrops(df, s[k], allowed_set)

(* lines 20-50 *)
LoadFilterSmiles(s, a) ==
    LET df == LoadDataFrame(s)
        drops == LoadDropsUpTo(df, s, LoadEffectiveAllowed(a), Len(s))
    IN  DfSmiles(DfDrop(df, drops))

IdleFilter ==
    /\ smiles = <<>> /\ target = <<>> /\ allowed_atoms = None
    /\ fpc = "idle" /\ fi = 0 /\ indices_to_drop = <<>>
    /\ out_smiles = <<>> /\ out_target = <<>>
    /\ load_pc = "idle" /\ load_ret = <<>>

InitFilterVars ==
    /\ smiles \in SeqsUpTo(SmilesPool, MaxLen)
    /\ target \in [DOMAIN smiles -> Targets]
    /\ allowed_atoms \in AllowedChoices
    /\ fpc = "loop" /\ fi = 0 /\ indices_to_drop = <<>>
    /\ out_smiles = <<>> /\ out_target = <<>>
    /\ load_pc = "new" /\ load_ret = <<>>

(* one iteration of `for element in smiles` *)
FilterStep ==
    /\ UNCHANGED <<trainVars, splitVars, testVars, metricVars, cpVars, dsVars>>
    /\ fpc = "loop" /\ fi < Len(smiles)
    /\ indices_to_drop' = indices_to_drop
            \o NewDrops(DfSmiles(DataFrame(smiles, target)), smiles[fi + 1],
                        EffectiveAllowed(allowed_atoms))
    /\ fi' = fi + 1
    /\ UNCHANGED <<smiles, target, allowed_atoms, fpc, out_smiles, out_target,
                   load_pc, load_ret>>

(* loop exhausted: drop, reset_index, return *)
FilterReturn ==
    /\ UNCHANGED <<trainVars, splitVars, testVars, metricVars, cpVars, dsVars>>
    /\ fpc = "loop" /\ fi = Len(smiles)
    /\ LET r == FilterResult(DataFrame(smiles, target), indices_to_drop)
       IN  out_smiles' = r[1] /\ out_target' = r[2]
    /\ fpc' = "done"
    /\ UNCHANGED <<smiles, target, allowed_atoms, fi, indices_to_drop, load_pc,
                   load_ret>>

(* a call of data_load.filter_smiles on the same SMILES list and allow-list *)
DataLoadFilterSmiles ==
    /\ UNCHANGED <<trainVars, splitVars, testVars, metricVars, cpVars, dsVars>>
    /\ load_pc = "new"
    /\ load_ret' = LoadFilterSmiles(smiles, allowed_atoms)
    /\ load_pc' = "done"
    /\ UNCHANGED <<smiles, target, allowed_atoms, fpc, fi, indices_to_drop,
                   out_smiles, out_target>>

NextFilter == FilterStep \/ FilterReturn \/ DataLoadFilterSmiles

-----------------------------------------------------------------------------
(*                               train_model                               *)

(* Losses are exact rationals <<numerator, denominator>>; float('inf') is <<1, 0>> *)
Inf == <<1, 0>>
RatLess(a, b) == a[1] * b[2] < b[1] * a[2]

(* np.zeros(n) and np.mean(temp) *)
Zeros(n) == [k \in 1..n |-> 0]
Mean(t) == <<SumSeq(t), Len(t)>>

(* The loader lengths and per-batch losses drawn as inputs: loaders hold at
   least one batch and losses are numbers (no NaN) *)
BatchCounts == {1, 2}
TrainLossValues == {1}
ValLossValues == 0..MaxLoss

(* `for i in range(epochs)`: another value is left after ep were yielded *)
(* variant: range(epochs + 1) *)
RangeHasNextInclusive(n, e) == n <= e
RangeHasNext(n, e) == n < e

(* lines 98-102 *)
(* variant: loss_cut follows the latest validation loss *)
NextLossCutAlways(loss_val, cut) == loss_val
NextLossCut(loss_val, cut) == IF RatLess(loss_val, cut) THEN loss_val ELSE cut

(* variant: counter is never reset *)
NextCounterNoReset(loss_val, cut, c) == c + 1
NextCounter(loss_val, cut, c) == IF RatLess(loss_val, cut) THEN 0 ELSE c + 1

(* line 104 *)
(* variant: the early_stopping flag is not consulted *)
EarlyStopIgnoringFlag(c, p, es) == c = p
EarlyStop(c, p, es) == c = p /\ es

(* the number of optimizer.step() calls after one training mini-batch (line 82)
   and after one validation mini-batch (lines 88-90 call no optimizer method) *)
StepsAfterTrainBatch(n) == n + 1
(* variant: the validation loop steps the optimizer as the training loop does *)
StepsAfterValBatchStepping(n) == n + 1
StepsAfterValBatch(n) == n

IdleTrain ==
    /\ epochs = 0 /\ patience = 0 /\ early_stopping = FALSE
    /\ n_train = 0 /\ n_val = 0 /\ tpc = "idle" /\ ep = 0 /\ bidx = 0
    /\ temp = <<>> /\ train_loss = <<>> /\ val_loss = <<>>
    /\ loss_cut = Inf /\ counter = 0 /\ broke = FALSE
    /\ zero_grads = 0 /\ opt_steps = 0

(* lines 63-68: the state as the epoch loop is entered *)
InitTrainVars ==
    /\ epochs \in 0..MaxEpochs
    /\ patience \in 0..MaxPatience
    /\ early_stopping \in BOOLEAN
    /\ n_train \in BatchCounts /\ n_val \in BatchCounts
    /\ tpc = "head" /\ ep = 0 /\ bidx = 0 /\ temp = <<>>
    /\ train_loss = <<>> /\ val_loss = <<>>
    /\ loss_cut = Inf /\ counter = 0 /\ broke = FALSE
    /\ zero_grads = 0 /\ opt_steps = 0

(* line 71-72: the for statement takes the next i, or falls through to return *)
LoopHead ==
    /\ UNCHANGED <<filterVars, splitVars, testVars, metricVars, cpVars, dsVars>>
    /\ tpc = "head"
    /\ IF RangeHasNext(ep, epochs)
         THEN /\ ep' = ep + 1
              /\ temp' = Zeros(n_train)
              /\ bidx' = 0
              /\ tpc' = "train"
         ELSE /\ tpc' = "done"
              /\ UNCHANGED <<ep, temp, bidx>>
    /\ UNCHANGED <<epochs, patience, early_stopping, n_train, n_val, train_loss,
                   val_loss, loss_cut, counter, broke, zero_grads, opt_steps>>

(* lines 73-82: one training mini-batch *)
TrainBatch ==
    /\ UNCHANGED <<filterVars, splitVars, testVars, metricVars, cpVars, dsVars>>
    /\ tpc = "train" /\ bidx < n_train
    /\ \E l \in TrainLossValues : temp' = [temp EXCEPT ![bidx + 1] = l]
    /\ zero_grads' = zero_grads + 1
    /\ opt_steps' = StepsAfterTrainBatch(opt_steps)
    /\ bidx' = bidx + 1
    /\ UNCHANGED <<epochs, patience, early_stopping, n_train, n_val, tpc, ep,
                   train_loss, val_loss, loss_cut, counter, broke>>

(* lines 84-87: the training pass is over *)
TrainEnd ==
    /\ UNCHANGED <<filterVars, splitVars, testVars, metricVars, cpVars, dsVars>>
    /\ tpc = "train" /\ bidx = n_train
    /\ train_loss' = Append(train_loss, Mean(temp))
    /\ temp' = Zeros(n_val)
    /\ bidx' = 0
    /\ tpc' = "val"
    /\ UNCHANGED <<epochs, patience, early_stopping, n_train, n_val, ep, val_loss,
                   loss_cut, counter, broke, zero_grads, opt_steps>>

(* lines 88-90: one validation mini-batch *)
ValBatch ==
    /\ UNCHANGED <<filterVars, splitVars, testVars, metricVars, cpVars, dsVars>>
    /\ tpc = "val" /\ bidx < n_val
    /\ \E l \in ValLossValues : temp' = [temp EXCEPT ![bidx + 1] = l]
    /\ bidx' = bidx + 1
    /\ opt_steps' = StepsAfterValBatch(opt_steps)
    /\ UNCHANGED <<epochs, patience, early_stopping, n_train, n_val, tpc, ep,
                   train_loss, val_loss, loss_cut, counter, broke, zero_grads>>

(* lines 92-109: the end of the epoch *)
EpochEnd ==
    /\ UNCHANGED <<filterVars, splitVars, testVars, metricVars, cpVars, dsVars>>
    /\ tpc = "val" /\ bidx = n_val
    /\ LET loss_val == Mean(temp)
           c == NextCounter(loss_val, loss_cut, counter)
       IN  /\ val_loss' = Append(val_loss, loss_val)
           /\ loss_cut' = NextLossCut(loss_val, loss_cut)
           /\ counter' = c
           /\ IF EarlyStop(c, patience, early_stopping)
                THEN tpc' = "done" /\ broke' = TRUE
                ELSE tpc' = "head" /\ broke' = broke
    /\ UNCHANGED <<epochs, patience, early_stopping, n_train, n_val, ep, bidx,
                   temp, train_loss, zero_grads, opt_steps>>

NextTrain == LoopHead \/ TrainBatch \/ TrainEnd \/ ValBatch \/ EpochEnd

-----------------------------------------------------------------------------
(*                     split_data and MakeGraphDataSet                     *)

NoExc == [type |-> "none", msg |-> ""]
Raised(t, m) == [type |-> t, msg |-> m]

CustomSplitMsg ==
    "The custom split has to match the length of the filtered dataset.Consider saving the filtered output with .get_smiles()"
SplitFracMsg == "Split fractions should add to 1."

(* The keys of split_func, lines 164-170 *)
SplitFuncKeys == {"consecutive", "random", "molecular_weight", "scaffold", "stratified"}

(* split_func[split_type], lines 164-170: the splitter class behind each key *)
(* variant: 'scaffold' is served by the molecular-weight splitter *)
SplitterOfScaffoldByWeight(st) ==
    CASE st = "consecutive" -> "ConsecutiveSplitter"
      [] st = "random" -> "RandomSplitter"
      [] st = "molecular_weight" -> "MolecularWeightSplitter"
      [] st = "scaffold" -> "MolecularWeightSplitter"
      [] st = "stratified" -> "SingleTaskStratifiedSplitter"
SplitterOf(st) ==
    CASE st = "consecutive" -> "ConsecutiveSplitter"
      [] st = "random" -> "RandomSplitter"
      [] st = "molecular_weight" -> "MolecularWeightSplitter"
      [] st = "scaffold" -> "ScaffoldSplitter"
      [] st = "stratified" -> "SingleTaskStratifiedSplitter"

(* Inputs.  Fractions are written in tenths: <<8, 1, 1>> is [0.8, 0.1, 0.1] *)
SplitTypeChoices ==
    {None} \cup {Some(t) : t \in SplitFuncKeys \cup {"custom", "kfold"}}
SplitFracChoices ==
    {None, Some(<<8, 1, 1>>), Some(<<6, 2, 2>>), Some(<<5, 3, 1>>), Some(<<0, 0, 0>>)}
Labels == {0, 1, 2}
CustomSplitChoices == {None} \cup {Some(a) : a \in SeqsUpTo(Labels, MaxData)}

(* The dataset of n graph samples *)
Sample(k) == 100 + k
DataOfLen(n) == [k \in 1..n |-> Sample(k)]

(* np.sum(split_frac), in tenths, and Python's truth value of a number *)
NpSum(f) == SumSeq(f)
Truthy(x) == x # 0

(* custom_split[custom_split == v]: the ELEMENTS of custom_split equal to v *)
MaskSelect(a, v) == SelectSeq(a, LAMBDA x : x = v)

(* Line 173 reads the name `self`, which split_data neither takes as a parameter
   nor finds as a global of the module *)
SelfIsBound == FALSE

(* split_data, lines 162-179.  A named splitter is a library call: the result
   records which splitter class was called with which arguments *)
SplitData(d, st, sf, cs) ==
    IF st = "custom"
      THEN IF cs = None
             THEN [exc |-> Raised("AssertionError", CustomSplitMsg), ret |-> None]
           ELSE IF ~SelfIsBound
             THEN [exc |-> Raised("NameError", "name 'self' is not defined"), ret |-> None]
           ELSE IF Len(cs.val) # Len(d)
             THEN [exc |-> Raised("AssertionError", CustomSplitMsg), ret |-> None]
           ELSE [exc |-> NoExc,
                 ret |-> Some(<<MaskSelect(cs.val, 0), MaskSelect(cs.val, 1),
                                MaskSelect(cs.val, 2)>>)]
      ELSE IF st \notin SplitFuncKeys
             THEN [exc |-> Raised("KeyError", st), ret |-> None]
           ELSE [exc |-> NoExc,
                 ret |-> Some(<<[splitter |-> SplitterOf(st), part |-> "train", dataset |-> d, frac |-> sf],
                                [splitter |-> SplitterOf(st), part |-> "val", dataset |-> d, frac |-> sf],
                                [splitter |-> SplitterOf(st), part |-> "test", dataset |-> d, frac |-> sf]>>)]

(* lines 368-372 *)
DefaultSplitType(st) == IF st = None THEN "random" ELSE st.val
DefaultSplitFrac(sf) == IF sf = None THEN <<8, 1, 1>> ELSE sf.val

(* line 379: assert np.sum(self.split_frac) *)
SplitFracAccepted(f) == Truthy(NpSum(f))

IdleSplit ==
    /\ data = <<>> /\ split = FALSE /\ split_type = None /\ split_frac = None
    /\ custom_split = None /\ spc = "idle" /\ exc = NoExc
    /\ self_split_type = None /\ self_split_frac = None
    /\ self_train = None /\ self_val = None /\ self_test = None
    /\ splits_ret = None

(* DataSet.__init__ has built self.data; the arguments are those of the call *)
InitSplitVars ==
    /\ data \in {DataOfLen(n) : n \in 0..MaxData}
    /\ split \in BOOLEAN
    /\ split_type \in SplitTypeChoices
    /\ split_frac \in SplitFracChoices
    /\ custom_split \in CustomSplitChoices
    /\ spc = "new" /\ exc = NoExc
    /\ self_split_type = None /\ self_split_frac = None
    /\ self_train = None /\ self_val = None /\ self_test = None
    /\ splits_ret = None

(* MakeGraphDataSet.__init__, lines 368-383 *)
MakeGraphDataSetInit ==
    /\ UNCHANGED <<filterVars, trainVars, testVars, metricVars, cpVars, dsVars>>
    /\ spc = "new"
    /\ LET st == DefaultSplitType(split_type)
           sf == DefaultSplitFrac(split_frac)
           r  == SplitData(data, st, sf, custom_split)
       IN  /\ self_split_type' = Some(st)
           /\ self_split_frac' = Some(sf)
           /\ IF ~SplitFracAccepted(sf)
                THEN /\ spc' = "failed"
                     /\ exc' = Raised("AssertionError", SplitFracMsg)
                     /\ UNCHANGED <<self_train, self_val, self_test>>
              ELSE IF ~split
                THEN /\ spc' = "constructed"
                     /\ UNCHANGED <<exc, self_train, self_val, self_test>>
              ELSE IF r.exc # NoExc
                THEN /\ spc' = "failed"
                     /\ exc' = r.exc
                     /\ UNCHANGED <<self_train, self_val, self_test>>
              ELSE   /\ spc' = "constructed"
                     \* line 382: self.train, self.test, self.val = split_data(...)
                     /\ self_train' = Some(r.ret.val[1])
                     /\ self_test' = Some(r.ret.val[2])
                     /\ self_val' = Some(r.ret.val[3])
                     /\ UNCHANGED exc
    /\ UNCHANGED <<data, split, split_type, split_frac, custom_split, splits_ret>>

(* get_splits(), lines 385-387, on a constructed object *)
GetSplits ==
    /\ UNCHANGED <<filterVars, trainVars, testVars, metricVars, cpVars, dsVars>>
    /\ spc = "constructed" /\ splits_ret = None
    /\ splits_ret' = Some(SplitData(data, self_split_type.val, self_split_frac.val,
                                    custom_split))
    /\ UNCHANGED <<data, split, split_type, split_frac, custom_split, spc, exc,
                   self_split_type, self_split_frac, self_train, self_val, self_test>>

NextSplit == MakeGraphDataSetInit \/ GetSplits

-----------------------------------------------------------------------------
(*                                test_model                               *)

(* The test samples drawn as inputs: the label y, and what the model returns for
   the sample (its prediction row `out` and its latent row `lat`) *)
SamplePool ==
    {[y |-> 0, out |-> 0, lat |-> 5], [y |-> 0, out |-> 1, lat |-> 6],
     [y |-> 2, out |-> 1, lat |-> 7]}

Min(a, b) == IF a < b THEN a ELSE b

(* DataLoader(test_data_loader, batch_size = batch_size): consecutive chunks *)
LoaderLen(d, b) == (Len(d) + b - 1) \div b
Batch(d, b, k) == SubSeq(d, (k - 1) * b + 1, Min(k * b, Len(d)))

(* model(batch, return_latents = True) *)
ModelOut(batch) == [k \in DOMAIN batch |-> batch[k].out]
ModelLat(batch) == [k \in DOMAIN batch |-> batch[k].lat]

(* loss_func(batch.y, out): the loss function of the runs, a sum of squared errors *)
LossFunc(batch) ==
    SumSeq([k \in DOMAIN batch |-> (batch[k].y - batch[k].out) * (batch[k].y - batch[k].out)])

(* torch.concat([a, b], dim=0) *)
(* variant: the new rows put in front *)
ConcatSwapped(a, b) == b \o a
Concat(a, b) == a \o b

IdleTest ==
    /\ test_data = <<>> /\ batch_size = 1 /\ loss_given = FALSE
    /\ epc = "idle" /\ eidx = 0 /\ etemp = <<>>
    /\ preds = None /\ latents = None /\ test_ret = None

(* lines 142-151: the state as the batch loop is entered *)
InitTestVars ==
    /\ test_data \in SeqsUpTo(SamplePool, MaxSamples)
    /\ batch_size \in 1..MaxBatchSize
    /\ loss_given \in BOOLEAN
    /\ epc = "loop" /\ eidx = 0
    /\ etemp = Zeros(LoaderLen(test_data, batch_size))
    /\ preds = None /\ latents = None /\ test_ret = None

(* lines 153-167: one test batch *)
TestBatch ==
    /\ UNCHANGED <<filterVars, trainVars, splitVars, metricVars, cpVars, dsVars>>
    /\ epc = "loop" /\ eidx < LoaderLen(test_data, batch_size)
    /\ LET batch == Batch(test_data, batch_size, eidx + 1)
           out == ModelOut(batch)
           lat == ModelLat(batch)
       IN  /\ etemp' = IF loss_given THEN [etemp EXCEPT ![eidx + 1] = LossFunc(batch)]
                       ELSE etemp
           /\ IF eidx = 0
                THEN preds' = Some(out) /\ latents' = Some(lat)
                ELSE /\ preds' = Some(Concat(preds.val, out))
                     /\ latents' = Some(Concat(latents.val, lat))
    /\ eidx' = eidx + 1
    /\ UNCHANGED <<test_data, batch_size, loss_given, epc, test_ret>>

(* lines 169-175: the return; preds is unbound when no batch was seen *)
TestReturn ==
    /\ UNCHANGED <<filterVars, trainVars, splitVars, metricVars, cpVars, dsVars>>
    /\ epc = "loop" /\ eidx = LoaderLen(test_data, batch_size)
    /\ test_ret' =
         IF preds = None THEN [exc |-> "UnboundLocalError", ret |-> <<>>]
         ELSE IF loss_given
           THEN [exc |-> "none", ret |-> <<preds.val, latents.val, Mean(etemp)>>]
         ELSE [exc |-> "none", ret |-> <<preds.val, latents.val>>]
    /\ epc' = "done"
    /\ UNCHANGED <<test_data, batch_size, loss_given, eidx, etemp, preds, latents>>

NextTest == TestBatch \/ TestReturn

-----------------------------------------------------------------------------
(*                               pred_metric                               *)

(* exact rationals <<numerator, denominator>> *)
RatAdd(a, b) == <<a[1] * b[2] + b[1] * a[2], a[2] * b[2]>>
RatEq(a, b) == a[1] * b[2] = b[1] * a[2]

RECURSIVE RatSum(_)
RatSum(q) == IF q = <<>> THEN <<0, 1>> ELSE RatAdd(Head(q), RatSum(Tail(q)))

Abs(x) == IF x < 0 THEN -x ELSE x

(* The case labels of the match statement, lines 223-233, and the list that
   'all' stands for, line 218 *)
MetricNames == {"mse", "sse", "mae", "r2", "mre"}
AllMetrics == <<"mse", "sse", "mae", "r2", "mre">>

(* The argument metrics: a string (held as its one name), or a list of strings *)
Str(v) == [list |-> FALSE, val |-> <<v>>]
Lst(v) == [list |-> TRUE, val |-> v]

(* Inputs: metric names (one of them not a case label), vectors with non-zero
   targets *)
NamePool == MetricNames \cup {"rmse"}
MetricChoices ==
    {Str(n) : n \in NamePool \cup {"all"}} \cup {Lst(l) : l \in SeqsUpTo(NamePool, MaxMetrics)}
TargetValues == {1, 2}
PredictionValues == {0, 1}

(* lines 214-218 *)
NormaliseMetrics(m) ==
    IF ~m.list /\ m.val[1] # "all" THEN <<m.val[1]>>
    ELSE IF ~m.list THEN AllMetrics
    ELSE m.val

SumSqErr(t, p) == SumSeq([k \in DOMAIN t |-> (t[k] - p[k]) * (t[k] - p[k])])
SumAbsErr(t, p) == SumSeq([k \in DOMAIN t |-> Abs(t[k] - p[k])])

(* sklearn's mean_squared_error, mean_absolute_error, r2_score (nan below two
   samples; 1 or 0 when the targets do not vary) *)
MeanSquaredError(t, p) == <<SumSqErr(t, p), Len(t)>>
MeanAbsoluteError(t, p) == <<SumAbsErr(t, p), Len(t)>>
R2Score(t, p) ==
    LET n == Len(t)
        tot == n * SumSeq([k \in DOMAIN t |-> t[k] * t[k]]) - SumSeq(t) * SumSeq(t)
    IN  IF n < 2 THEN <<0, 0>>
        ELSE IF tot = 0 THEN (IF SumSqErr(t, p) = 0 THEN <<1, 1>> ELSE <<0, 1>>)
        ELSE <<tot - n * SumSqErr(t, p), tot>>

(* line 233: np.sum((target-prediction)/target)*100 *)
RelErrSum(t, p) == RatSum([k \in DOMAIN t |-> <<t[k] - p[k], t[k]>>])
MreValue(t, p) == <<RelErrSum(t, p)[1] * 100, RelErrSum(t, p)[2]>>

(* the value one case of the match statement stores *)
MetricValue(name, t, p) ==
    CASE name = "mse" -> MeanSquaredError(t, p)
      [] name = "sse" -> <<SumSqErr(t, p), 1>>
      [] name = "mae" -> MeanAbsoluteError(t, p)
      [] name = "r2"  -> R2Score(t, p)
      [] name = "mre" -> MreValue(t, p)

(* results[k] = v on a dict *)
DictPut(d, k, v) == [x \in (DOMAIN d) \cup {k} |-> IF x = k THEN v ELSE d[x]]

IdleMetric ==
    /\ prediction = <<>> /\ y_target = <<>> /\ metrics = Str("mse")
    /\ mpc = "idle" /\ mlist = <<>> /\ mi = 0 /\ results = <<>>
    /\ metric_ret = None

(* lines 210-220: the state as the for loop is entered *)
InitMetricVars ==
    /\ \E n \in 1..MaxVec :
          /\ y_target \in [1..n -> TargetValues]
          /\ prediction \in [1..n -> PredictionValues]
    /\ metrics \in MetricChoices
    /\ mpc = "loop"
    /\ mlist = NormaliseMetrics(metrics)
    /\ mi = 0 /\ results = <<>> /\ metric_ret = None

(* lines 222-233: one iteration of `for metric_ in metrics`; a name that is no
   case label matches nothing *)
PredMetricStep ==
    /\ UNCHANGED <<filterVars, trainVars, splitVars, testVars, cpVars, dsVars>>
    /\ mpc = "loop" /\ mi < Len(mlist)
    /\ LET metric_ == mlist[mi + 1]
       IN  results' = IF metric_ \in MetricNames
                        THEN DictPut(results, metric_,
                                     MetricValue(metric_, y_target, prediction))
                        ELSE results
    /\ mi' = mi + 1
    /\ UNCHANGED <<prediction, y_target, metrics, mpc, mlist, metric_ret>>

(* line 235: return results *)
PredMetricReturn ==
    /\ UNCHANGED <<filterVars, trainVars, splitVars, testVars, cpVars, dsVars>>
    /\ mpc = "loop" /\ mi = Len(mlist)
    /\ metric_ret' = Some(results)
    /\ mpc' = "done"
    /\ UNCHANGED <<prediction, y_target, metrics, mlist, mi, results>>

NextMetric == PredMetricStep \/ PredMetricReturn

-----------------------------------------------------------------------------
(*          CpLayer, GroupGAT_Ensemble and old_GroupGAT_Ensemble           *)

(* Quantities are counted in units of epsilon = 1e-7 (line 46): epsilon is 1,
   and 1.0 is EpsInverse *)
EpsInverse == 10000000

(* A quotient of two such quantities is a pure number: a fraction n/d with d > 0,
   or one of the float values inf, -inf, nan *)
Num(n, d) == [k |-> "num", n |-> n, d |-> d]
FInf(sgn) == [k |-> "inf", sgn |-> sgn]
NaN == [k |-> "nan"]

(* float division a / b *)
Divide(a, b) ==
    IF b = 0 THEN (IF a = 0 THEN NaN ELSE IF a > 0 THEN FInf(1) ELSE FInf(-1))
    ELSE IF b < 0 THEN Num(-a, -b)
    ELSE Num(a, b)

(* torch.clamp(x, min=-m, max=m): nan stays nan *)
Clamp(x, m) ==
    CASE x.k = "nan" -> x
      [] x.k = "inf" -> Num(x.sgn * m, 1)
      [] OTHER -> IF x.n > m * x.d THEN Num(m, 1)
                  ELSE IF x.n < -m * x.d THEN Num(-m, 1)
                  ELSE x

(* torch.abs(x) <= m: False for nan *)
AbsLe(x, m) ==
    CASE x.k = "nan" -> FALSE
      [] x.k = "inf" -> FALSE
      [] OTHER -> Abs(x.n) <= m * x.d

(* safe_sinh, lines 54-59, and safe_cosh, lines 61-66: torch.where takes the
   hyperbolic function where |x| <= 20 and the exponential elsewhere *)
SafeSinh(x) == IF AbsLe(x, 20) THEN [f |-> "sinh", x |-> x]
               ELSE [f |-> "sign*exp/2", x |-> x]
SafeCosh(x) == IF AbsLe(x, 20) THEN [f |-> "cosh", x |-> x]
               ELSE [f |-> "exp/2", x |-> x]

(* v + epsilon, lines 68-69 *)
PlusEps(v) == [f |-> "plus_eps", x |-> v]

(* T + epsilon is 0.0 exactly when T is -epsilon *)
ShiftedTIsZero(T) == T + 1 = 0

(* safe_sinh(x) + epsilon is 0.0 when sinh(x) is -epsilon: in float32 sinh(x)
   rounds to x for an x that small, so this is x = -epsilon; the exponential
   branch has magnitude at least 1/2 *)
SinhTermIsZero(x) ==
    /\ x.k = "num"
    /\ AbsLe(x, 20)
    /\ x.n * EpsInverse = -x.d

(* cosh(x) >= 1 and exp(|x|)/2 >= 1/2: safe_cosh(x) + epsilon is never 0.0 *)
CoshTermIsZero(x) == FALSE

(* CpLayer.forward, lines 45-76: the intermediate values and the returned
   Cp = B + C * (D_over_T / sinh_term)^2 + E * (F_over_T / cosh_term)^2 *)
CpForward(B, C, D, E, F, T) ==
    LET Ts == T + 1
        D_over_T == Clamp(Divide(D, Ts), 20)
        F_over_T == Clamp(Divide(F, Ts), 20)
        sinh_term == PlusEps(SafeSinh(D_over_T))
        cosh_term == PlusEps(SafeCosh(F_over_T))
    IN  [T |-> Ts, D_over_T |-> D_over_T, F_over_T |-> F_over_T,
         zero_T |-> ShiftedTIsZero(T),
         zero_sinh |-> SinhTermIsZero(D_over_T),
         zero_cosh |-> CoshTermIsZero(F_over_T),
         Cp |-> [f |-> "a+b*(p/q)^2+c*(r/s)^2",
                 a |-> B, b |-> C, p |-> D_over_T, q |-> sinh_term,
                 c |-> E, r |-> F_over_T, s |-> cosh_term]]

NoTrace == [T |-> 1, D_over_T |-> NaN, F_over_T |-> NaN, zero_T |-> FALSE,
            zero_sinh |-> FALSE, zero_cosh |-> FALSE, Cp |-> NaN]

(* line 39 and line 112: Cp(A, B, C, D, E, T) *)
(* variant: the second and third argument exchanged *)
NewCpCallSwapped(o, T) == CpForward(o["A"], o["C"], o["B"], o["D"], o["E"], T)
NewCpCall(o, T) == CpForward(o["A"], o["B"], o["C"], o["D"], o["E"], T)
OldCpCall(o, T) == CpForward(o["A"], o["B"], o["C"], o["D"], o["E"], T)

FiveModels == <<"A", "B", "C", "D", "E">>
ModelNamePool == {"A", "B", "C", "D", "E", "X"}

(* Inputs: the keys of net_params_per_model, the sub-model outputs and the
   temperature, in units of epsilon *)
ModelKeyChoices ==
    {FiveModels, <<"E", "D", "C", "B", "A">>, <<"A", "B", "C", "D", "E", "X">>,
     <<"A", "B", "C", "D">>}
SubOutChoices ==
    {[n \in ModelNamePool |->
        CASE n = "A" -> 3 [] n = "B" -> b [] n = "C" -> c
          [] n = "D" -> 5 [] n = "E" -> e [] OTHER -> 9] :
     b \in {0, 2}, c \in {-1, 0, 1, 50}, e \in {0, 1, 50}}
TChoices == {-1, 0, 1, EpsInverse - 1}

IdleCp ==
    /\ ens_class = "new" /\ model_keys = <<>> /\ sub_out = <<>> /\ global_T = 0
    /\ cpc = "idle" /\ ci = 0 /\ outputs = <<>> /\ calls = <<>>
    /\ cp_trace = NoTrace /\ ens_ret = None

(* forward is entered on a constructed ensemble *)
InitCpVars ==
    /\ ens_class \in {"new", "old"}
    /\ model_keys \in IF ens_class = "old" THEN {FiveModels} ELSE ModelKeyChoices
    /\ sub_out \in SubOutChoices
    /\ global_T \in TChoices
    /\ cpc = "eval" /\ ci = 0 /\ outputs = <<>>
    /\ calls = [n \in ModelNamePool |-> 0]
    /\ cp_trace = NoTrace /\ ens_ret = None

(* GroupGAT_Ensemble.forward, lines 31-32: one iteration over self.models *)
EnsembleEval ==
    /\ UNCHANGED <<filterVars, trainVars, splitVars, testVars, metricVars, dsVars>>
    /\ ens_class = "new" /\ cpc = "eval" /\ ci < Len(model_keys)
    /\ LET model_name == model_keys[ci + 1]
       IN  /\ outputs' = DictPut(outputs, model_name, sub_out[model_name])
           /\ calls' = [calls EXCEPT ![model_name] = @ + 1]
    /\ ci' = ci + 1
    /\ UNCHANGED <<ens_class, model_keys, sub_out, global_T, cpc, cp_trace, ens_ret>>

(* GroupGAT_Ensemble.forward, lines 33-39 *)
EnsembleCombine ==
    /\ UNCHANGED <<filterVars, trainVars, splitVars, testVars, metricVars, dsVars>>
    /\ ens_class = "new" /\ cpc = "eval" /\ ci = Len(model_keys)
    /\ IF \E k \in DOMAIN FiveModels : FiveModels[k] \notin DOMAIN outputs
         THEN /\ ens_ret' = Some([exc |-> "KeyError", val |-> NaN])
              /\ UNCHANGED cp_trace
         ELSE /\ cp_trace' = NewCpCall(outputs, global_T)
              /\ ens_ret' = Some([exc |-> "none", val |-> cp_trace'.Cp])
    /\ cpc' = "done"
    /\ UNCHANGED <<ens_class, model_keys, sub_out, global_T, ci, outputs, calls>>

(* old_GroupGAT_Ensemble.forward, lines 106-110: the five calls, in order *)
OldEval ==
    /\ UNCHANGED <<filterVars, trainVars, splitVars, testVars, metricVars, dsVars>>
    /\ ens_class = "old" /\ cpc = "eval" /\ ci < Len(FiveModels)
    /\ LET model_name == FiveModels[ci + 1]
       IN  /\ outputs' = DictPut(outputs, model_name, sub_out[model_name])
           /\ calls' = [calls EXCEPT ![model_name] = @ + 1]
    /\ ci' = ci + 1
    /\ UNCHANGED <<ens_class, model_keys, sub_out, global_T, cpc, cp_trace, ens_ret>>

(* old_GroupGAT_Ensemble.forward, lines 111-112 *)
OldCombine ==
    /\ UNCHANGED <<filterVars, trainVars, splitVars, testVars, metricVars, dsVars>>
    /\ ens_class = "old" /\ cpc = "eval" /\ ci = Len(FiveModels)
    /\ cp_trace' = OldCpCall(outputs, global_T)
    /\ ens_ret' = Some([exc |-> "none", val |-> cp_trace'.Cp])
    /\ cpc' = "done"
    /\ UNCHANGED <<ens_class, model_keys, sub_out, global_T, ci, outputs, calls>>

NextCp == EnsembleEval \/ EnsembleCombine \/ OldEval \/ OldCombine

-----------------------------------------------------------------------------
(*                     DataSet and construct_dataset                       *)

DataSetArgsMsg == "path or (smiles and target) must given."

(* line 231: the asserted condition *)
(* variant: smiles alone, or target alone, is enough *)
DataSetArgsOkEither(fp, sm, tg) == fp # None \/ sm # None \/ tg # None
DataSetArgsOk(fp, sm, tg) == fp # None \/ (sm # None /\ tg # None)

(* DataLoad.__int__, lines 189-192, called with root = None *)
DefaultRoot == "./data"

(* A pickle file is named by directory and file name: path + '/' + filename +
   '.pickle' (line 269) *)
PicklePath(path, filename) == <<path, filename, ".pickle">>
DefaultSaveDir == "cwd/data"

(* filter_smiles as one call: everything the for loop appends, then the return *)
RECURSIVE DropsUpTo(_, _, _)
DropsUpTo(sm, allowed, k) ==
    IF k = 0 THEN <<>>
    ELSE DropsUpTo(sm, allowed, k - 1) \o NewDrops(sm, sm[k], allowed)

FilterSmiles(sm, tg, allowed) ==
    FilterResult(DataFrame(sm, tg), DropsUpTo(sm, EffectiveAllowed(allowed), Len(sm)))

(* (t - np.mean(ref)) / np.std(ref), line 243.  With n = len(ref), S its sum and
   Q its sum of squares this is (n*t - S) / sqrt(n*Q - S*S), kept as the pair
   <<n*t - S, n*Q - S*S>>; <<0, 0>> is the nan of a zero deviation *)
StandardiseBy(t, ref) ==
    LET n == Len(ref)
        S == SumSeq(ref)
        Q == SumSeq([k \in DOMAIN ref |-> ref[k] * ref[k]])
    IN  [k \in DOMAIN t |-> <<n * t[k] - S, n * Q - S * S>>]

(* lines 242-243: self.target is standardised by its own mean and deviation *)
(* variant: standardised by the statistics of the targets as they were given *)
StandardisedTargetByGiven(kept, given) == StandardiseBy(kept, given)
StandardisedTarget(kept, given) == StandardiseBy(kept, kept)

(* construct_dataset, lines 149-158: one Data per SMILES, in order; a SMILES
   that does not parse makes GetAdjacencyMatrix(None) raise *)
ConstructDataset(sm, tg) ==
    IF \E k \in DOMAIN sm : MolFromSmiles(sm[k]) = None
      THEN [exc |-> Raised("ArgumentError", "GetAdjacencyMatrix(NoneType)"), data |-> <<>>]
      ELSE [exc |-> NoExc,
            data |-> [k \in DOMAIN sm |->
                        [smiles |-> sm[k], x |-> GetAtoms(MolFromSmiles(sm[k])),
                         y |-> tg[k]]]]

(* __len__ and __getitem__, lines 296-317 (item counted from 0) *)
DataSetLen(d) == Len(d)
DataSetGetItem(d, item) == d[item + 1]

(* pickle.dump / pickle.load of a list, lines 236-237 and 269-270: the stream
   holds the protocol, the length and one frame per element *)
PickleDump(d) ==
    [proto |-> "HIGHEST_PROTOCOL", n |-> Len(d),
     frames |-> [k \in 1..Len(d) |-> [obj |-> d[k]]]]
(* variant: the last frame is not read *)
PickleLoadDroppingLast(b) == [k \in 1..(b.n - 1) |-> b.frames[k].obj]
PickleLoad(b) == [k \in 1..b.n |-> b.frames[k].obj]

(* The pickle file that exists before the run, and the paths drawn as inputs *)
OldFile == PicklePath(DefaultSaveDir, "old")
MissingFile == PicklePath(DefaultSaveDir, "missing")
OldData == <<[smiles |-> "CCO", x |-> <<"C", "C", "O">>, y |-> <<0, 0>>]>>
FilePathChoices == {None, Some(OldFile), Some(MissingFile)}
SaveNames == {"old"}
SavePaths == {None, Some("out")}

IdleDataSet ==
    /\ file_path = None /\ ds_smiles = None /\ ds_target = None /\ ds_allowed = None
    /\ pickles = <<>> /\ dpc = "idle" /\ ds_exc = NoExc
    /\ self_root = None /\ self_data = None /\ self_smiles = None
    /\ self_target = None
    /\ saved_path = None /\ lpc = "none" /\ loaded_data = None

InitDataSetVars ==
    /\ file_path \in FilePathChoices
    /\ \/ /\ ds_smiles = None
          /\ ds_target \in {None, Some(<<10>>)}
       \/ \E sm \in SeqsUpTo(SmilesPool, MaxLen) :
             /\ ds_smiles = Some(sm)
             /\ ds_target \in {None} \cup {Some(t) : t \in [DOMAIN sm -> Targets]}
    /\ ds_allowed \in AllowedChoices
    /\ pickles = [f \in {OldFile} |-> PickleDump(OldData)]
    /\ dpc = "new" /\ ds_exc = NoExc
    /\ self_root = None /\ self_data = None /\ self_smiles = None
    /\ self_target = None
    /\ saved_path = None /\ lpc = "none" /\ loaded_data = None

(* DataSet.__init__, lines 228-251 *)
DataSetInit ==
    /\ UNCHANGED <<filterVars, trainVars, splitVars, testVars, metricVars, cpVars>>
    /\ dpc = "new"
    /\ IF ~DataSetArgsOk(file_path, ds_smiles, ds_target)
         THEN /\ dpc' = "failed"
              /\ ds_exc' = Raised("AssertionError", DataSetArgsMsg)
              /\ UNCHANGED <<self_root, self_data, self_smiles, self_target>>
       ELSE IF file_path # None
         THEN /\ self_root' = Some(DefaultRoot)
              /\ UNCHANGED <<self_smiles, self_target>>
              /\ IF file_path.val \in DOMAIN pickles
                   THEN /\ self_data' = Some(PickleLoad(pickles[file_path.val]))
                        /\ dpc' = "constructed"
                        /\ UNCHANGED ds_exc
                   ELSE /\ dpc' = "failed"
                        /\ ds_exc' = Raised("FileNotFoundError", "")
                        /\ UNCHANGED self_data
       ELSE IF ds_smiles = None \/ ds_target = None
         THEN \* filter_smiles cannot pair a list with None
              /\ self_root' = Some(DefaultRoot)
              /\ dpc' = "failed"
              /\ ds_exc' = Raised("TypeError", "")
              /\ UNCHANGED <<self_data, self_smiles, self_target>>
       ELSE LET r == FilterSmiles(ds_smiles.val, ds_target.val, ds_allowed)
                t == StandardisedTarget(r[2], ds_target.val)
                c == ConstructDataset(r[1], t)
            IN  /\ self_root' = Some(DefaultRoot)
                /\ self_smiles' = Some(r[1])
                /\ self_target' = Some(t)
                /\ IF c.exc # NoExc
                     THEN /\ dpc' = "failed"
                          /\ ds_exc' = c.exc
                          /\ UNCHANGED self_data
                     ELSE /\ dpc' = "constructed"
                          /\ self_data' = Some(c.data)
                          /\ UNCHANGED ds_exc
    /\ UNCHANGED <<file_path, ds_smiles, ds_target, ds_allowed, pickles,
                   saved_path, lpc, loaded_data>>

(* DataSet.save(filename, path), lines 253-272 *)
Save ==
    /\ UNCHANGED <<filterVars, trainVars, splitVars, testVars, metricVars, cpVars>>
    /\ dpc = "constructed"
    /\ \E filename \in SaveNames, path \in SavePaths :
          LET dir == IF path = None THEN DefaultSaveDir ELSE path.val
              file == PicklePath(dir, filename)
          IN  /\ pickles' = DictPut(pickles, file, PickleDump(self_data.val))
              /\ saved_path' = Some(file)
    /\ UNCHANGED <<file_path, ds_smiles, ds_target, ds_allowed, dpc, ds_exc,
                   self_root, self_data, self_smiles, self_target, lpc,
                   loaded_data>>

(* DataSet(file_path = <the file just saved>), lines 228-237: a second object *)
DataSetLoad ==
    /\ UNCHANGED <<filterVars, trainVars, splitVars, testVars, metricVars, cpVars>>
    /\ dpc = "constructed" /\ saved_path # None
    /\ IF saved_path.val \in DOMAIN pickles
         THEN /\ loaded_data' = Some(PickleLoad(pickles[saved_path.val]))
              /\ lpc' = "loaded"
         ELSE /\ lpc' = "failed"
              /\ UNCHANGED loaded_data
    /\ UNCHANGED <<file_path, ds_smiles, ds_target, ds_allowed, pickles, dpc,
                   ds_exc, self_root, self_data, self_smiles, self_target,
                   saved_path>>

NextDataSet == DataSetInit \/ Save \/ DataSetLoad

-----------------------------------------------------------------------------
(*                              Specifications                             *)

IdleRest == IdleMetric /\ IdleCp /\ IdleDataSet
IdleFirst == IdleFilter /\ IdleTrain /\ IdleSplit /\ IdleTest

InitFilter == InitFilterVars /\ IdleTrain /\ IdleSplit /\ IdleTest /\ IdleRest
InitTrain  == IdleFilter /\ InitTrainVars /\ IdleSplit /\ IdleTest /\ IdleRest
InitSplit  == IdleFilter /\ IdleTrain /\ InitSplitVars /\ IdleTest /\ IdleRest
InitTest   == IdleFilter /\ IdleTrain /\ IdleSplit /\ InitTestVars /\ IdleRest
InitMetric == IdleFirst /\ InitMetricVars /\ IdleCp /\ IdleDataSet
InitCp     == IdleFirst /\ IdleMetric /\ InitCpVars /\ IdleDataSet
InitDataSet == IdleFirst /\ IdleMetric /\ IdleCp /\ InitDataSetVars

SpecFilter == InitFilter /\ [][NextFilter]_vars
SpecTrain  == InitTrain /\ [][NextTrain]_vars
SpecSplit  == InitSplit /\ [][NextSplit]_vars
SpecTest   == InitTest /\ [][NextTest]_vars
SpecMetric == InitMetric /\ [][NextMetric]_vars
SpecCp     == InitCp /\ [][NextCp]_vars
SpecDataSet == InitDataSet /\ [][NextDataSet]_vars

(* train_model is one sequential loop: a step that can be taken is taken *)
SpecTrainFair == SpecTrain /\ WF_vars(NextTrain)

-----------------------------------------------------------------------------
(*                        Properties of filter_smiles                      *)

(* The three checks of the filter, for one SMILES string *)
PassesChecks(s, allowed) ==
    LET mol == MolFromSmiles(s)
    IN  /\ mol # None
        /\ GetNumHeavyAtoms(mol) >= 2
        /\ \A k \in DOMAIN mol.val : InList(mol.val[k], allowed)

Pairs(s, t) == [k \in DOMAIN s |-> <<s[k], t[k]>>]
Count(x, l) == Cardinality({k \in DOMAIN l : l[k] = x})

RECURSIVE IsSubSeq(_, _)
IsSubSeq(a, b) ==
    IF a = <<>> THEN TRUE
    ELSE IF b = <<>> THEN FALSE
    ELSE IF Head(a) = Head(b) THEN IsSubSeq(Tail(a), Tail(b))
    ELSE IsSubSeq(a, Tail(b))

(* C1: once filter_smiles has returned, every returned SMILES parses, has at
   least two heavy atoms and uses only allowed atom symbols -- for every input
   list, lists with repeated SMILES strings included. *)
C1_SurvivorsPassChecks ==
    fpc = "done" =>
        \A k \in DOMAIN out_smiles :
            PassesChecks(out_smiles[k], EffectiveAllowed(allowed_atoms))

(* C2: the two returned lists have equal length, and the returned
   (SMILES, target) pairs are input pairs, in the order of the input. *)
C2_TargetsAligned ==
    fpc = "done" =>
        /\ Len(out_smiles) = Len(out_target)
        /\ IsSubSeq(Pairs(out_smiles, out_target), Pairs(smiles, target))

C2_Witness ==
    /\ fpc = "done"
    /\ Len(out_smiles) >= 2 /\ Len(out_smiles) < Len(smiles)
    /\ out_target[1] # out_target[2]

(* C3: a record that passes the three checks is never dropped: it is returned as
   many times as it was given, repeated SMILES strings included. *)
C3_PassingRecordsKept ==
    fpc = "done" =>
        /\ Len(out_smiles) = Len(out_target)
        /\ \A s \in SmilesPool : \A t \in Targets :
              PassesChecks(s, EffectiveAllowed(allowed_atoms)) =>
                  Count(<<s, t>>, Pairs(out_smiles, out_target))
                      = Count(<<s, t>>, Pairs(smiles, target))

C3_Witness ==
    /\ fpc = "done"
    /\ Len(out_smiles) < Len(smiles)
    /\ \E s \in SmilesPool :
          /\ PassesChecks(s, EffectiveAllowed(allowed_atoms))
          /\ Count(s, smiles) >= 2
          /\ Count(s, out_smiles) >= 2

-----------------------------------------------------------------------------
(*                         Properties of train_model                       *)

RatMin(a, b) == IF RatLess(b, a) THEN b ELSE a

(* the best validation loss among the first k epochs (inf when k = 0) *)
RECURSIVE BestUpTo(_, _)
BestUpTo(vl, k) == IF k = 0 THEN Inf ELSE RatMin(BestUpTo(vl, k - 1), vl[k])

(* epoch k strictly improved on the best validation loss seen before it *)
Improved(vl, k) == RatLess(vl[k], BestUpTo(vl, k - 1))

(* the number of consecutive non-improving epochs that end with epoch k *)
RECURSIVE BadRun(_, _)
BadRun(vl, k) == IF k = 0 \/ Improved(vl, k) THEN 0 ELSE 1 + BadRun(vl, k - 1)

(* the last epoch that improved (0 when none did) *)
LastImproved(vl) ==
    CHOOSE k \in 0..Len(vl) :
        /\ k > 0 => Improved(vl, k)
        /\ \A j \in (k + 1)..Len(vl) : ~Improved(vl, j)

(* C4: with early_stopping and patience >= 1, an epoch that ends with patience
   consecutive non-improving epochs is the last epoch executed and training is
   over when it ends; and training is only broken off at such an epoch. *)
C4_StopsAtPatience ==
    (early_stopping /\ patience >= 1) =>
        /\ \A k \in DOMAIN val_loss :
              BadRun(val_loss, k) = patience => (k = Len(val_loss) /\ tpc = "done")
        /\ broke => BadRun(val_loss, Len(val_loss)) = patience

C4_Witness ==
    /\ early_stopping /\ patience >= 1 /\ broke /\ tpc = "done"
    /\ Len(val_loss) >= 2 /\ Len(val_loss) < epochs
    /\ BadRun(val_loss, Len(val_loss)) = patience

(* C5: train_model terminates, having executed at most `epochs` epochs, and both
   returned lists hold exactly one entry per executed epoch. *)
C5_TerminatesWithOneEntryPerEpoch ==
    <>[](/\ tpc = "done"
         /\ ep <= epochs
         /\ Len(train_loss) = ep
         /\ Len(val_loss) = ep)

C5_Witness ==
    /\ tpc = "done" /\ broke /\ ep >= 2 /\ ep < epochs
    /\ Len(train_loss) = ep /\ Len(val_loss) = ep

(* C6: after every epoch loss_cut is the minimum of the validation losses
   computed so far, and counter is the number of epochs since the last epoch
   that strictly improved on the previous best. *)
C6_BestLossAndCounter ==
    IF val_loss = <<>>
      THEN loss_cut = Inf /\ counter = 0
      ELSE /\ \E k \in DOMAIN val_loss : val_loss[k] = loss_cut
           /\ \A k \in DOMAIN val_loss : ~RatLess(val_loss[k], loss_cut)
           /\ counter = Len(val_loss) - LastImproved(val_loss)

C6_Witness ==
    /\ Len(val_loss) >= 3
    /\ counter = 1
    /\ LastImproved(val_loss) >= 2
    /\ loss_cut # val_loss[Len(val_loss)]
    /\ loss_cut # val_loss[1]

-----------------------------------------------------------------------------
(*                 Properties of split_data / MakeGraphDataSet             *)

(* the samples of d at the positions where the label array a holds v *)
RECURSIVE SamplesLabelled(_, _, _)
SamplesLabelled(d, a, v) ==
    IF d = <<>> THEN <<>>
    ELSE (IF Head(a) = v THEN <<Head(d)>> ELSE <<>>) \o SamplesLabelled(Tail(d), Tail(a), v)

(* C7: MakeGraphDataSet rejects, with 'Split fractions should add to 1.', every
   split_frac whose entries do not sum to 1.0 (10 tenths). *)
C7_RejectsFractionsNotSummingToOne ==
    (spc \in {"constructed", "failed"}
        /\ NpSum(DefaultSplitFrac(split_frac)) # 10) =>
        (spc = "failed" /\ exc = Raised("AssertionError", SplitFracMsg))

(* C8: split_data with split_type 'custom' and a label array as long as the
   dataset succeeds and returns the samples labelled 0, 1 and 2. *)
C8_CustomSplitReturnsPartitions ==
    (/\ splits_ret # None
     /\ self_split_type = Some("custom")
     /\ custom_split # None
     /\ Len(custom_split.val) = Len(data)) =>
        /\ splits_ret.val.exc = NoExc
        /\ splits_ret.val.ret =
              Some(<<SamplesLabelled(data, custom_split.val, 0),
                     SamplesLabelled(data, custom_split.val, 1),
                     SamplesLabelled(data, custom_split.val, 2)>>)

(* C9: split_data with split_type 'custom' fails with the assertion 'The custom
   split has to match the length of the filtered dataset.' whenever custom_split
   is missing or its length differs from the dataset's, and returns nothing. *)
C9_CustomSplitLengthAsserted ==
    (/\ splits_ret # None
     /\ self_split_type = Some("custom")
     /\ (custom_split = None \/ Len(custom_split.val) # Len(data))) =>
        /\ splits_ret.val.exc = Raised("AssertionError", CustomSplitMsg)
        /\ splits_ret.val.ret = None

-----------------------------------------------------------------------------
(*                          Properties of test_model                       *)

(* the sum of the losses of the batches of the loader *)
TotalBatchLoss ==
    SumSeq([k \in 1..LoaderLen(test_data, batch_size) |->
                LossFunc(Batch(test_data, batch_size, k))])

(* C10: over a non-empty loader test_model returns the per-sample predictions
   and latents in the order of the loader, and the mean of the per-batch losses
   as a third value exactly when a loss function was given. *)
C10_TestModelResult ==
    (epc = "done" /\ test_data # <<>>) =>
        /\ test_ret.exc = "none"
        /\ test_ret.ret[1] = [k \in DOMAIN test_data |-> test_data[k].out]
        /\ test_ret.ret[2] = [k \in DOMAIN test_data |-> test_data[k].lat]
        /\ (Len(test_ret.ret) = 3) <=> loss_given
        /\ loss_given =>
              test_ret.ret[3] = <<TotalBatchLoss, LoaderLen(test_data, batch_size)>>

C10_Witness ==
    /\ epc = "done" /\ loss_given
    /\ LoaderLen(test_data, batch_size) >= 2
    /\ Len(test_data) > LoaderLen(test_data, batch_size)
    /\ test_ret.ret[1][1] # test_ret.ret[1][Len(test_data)]
    /\ TotalBatchLoss > 0

-----------------------------------------------------------------------------
(*              Further properties of MakeGraphDataSet / train_model       *)

(* C17: after construction with split=True, train, val and test hold the first,
   the second and the third partition that split_data returns. *)
C17_AttributesFollowSplitOrder ==
    (spc = "constructed" /\ split) =>
        LET r == SplitData(data, self_split_type.val, self_split_frac.val, custom_split)
        IN  /\ self_train = Some(r.ret.val[1])
            /\ self_val = Some(r.ret.val[2])
            /\ self_test = Some(r.ret.val[3])

(* C18: with early_stopping disabled train_model runs exactly `epochs` epochs,
   whatever the validation losses and the patience, and both returned lists
   have length `epochs`. *)
C18_NoEarlyStoppingRunsAllEpochs ==
    (~early_stopping) =>
        <>[](/\ tpc = "done" /\ ~broke
             /\ ep = epochs
             /\ Len(train_loss) = epochs
             /\ Len(val_loss) = epochs)

C18_Witness ==
    /\ ~early_stopping /\ tpc = "done" /\ ep = epochs /\ epochs >= 3
    /\ patience >= 1
    /\ \E k \in DOMAIN val_loss : k < Len(val_loss) /\ BadRun(val_loss, k) = patience

(* C19: for every patience, 0 included, training with early_stopping is never
   broken off at the end of an epoch whose validation loss was a strict
   improvement on the best seen before it. *)
C19_NeverStopsOnImprovement ==
    (early_stopping /\ broke) => ~Improved(val_loss, Len(val_loss))

(* C20: the optimizer is zeroed and stepped once per training mini-batch and
   never during the validation pass: the steps made are the training batches
   handled so far, epochs times training batches in the end. *)
C20_OneStepPerTrainingBatch ==
    /\ zero_grads = opt_steps
    /\ opt_steps = IF tpc = "train" THEN (ep - 1) * n_train + bidx ELSE ep * n_train

C20_Witness ==
    /\ tpc = "done" /\ ep >= 2 /\ n_train = 2 /\ n_val = 2
    /\ opt_steps = ep * n_train

-----------------------------------------------------------------------------
(*                        Properties of pred_metric                        *)

(* the number of metrics a call asks for *)
Requested(m) ==
    IF m.list THEN Len(m.val)
    ELSE IF m.val[1] = "all" THEN Len(AllMetrics)
    ELSE 1

(* C11: the result of pred_metric has exactly one entry per metric requested:
   one per element of a list of names, one for a single name, five for 'all'. *)
C11_OneResultPerMetric ==
    mpc = "done" => Cardinality(DOMAIN metric_ret.val) = Requested(metrics)

(* the mean relative error (1/N) * sum_i (y_i - f(x_i)) / y_i * 100 *)
MeanRelativeError(y, f) ==
    LET total == RatSum([i \in DOMAIN y |-> <<(y[i] - f[i]) * 100, y[i]>>])
    IN  <<total[1], total[2] * Len(y)>>

(* C12: the value returned for 'mre' is the mean relative error of the
   predictions against the targets, in percent. *)
C12_MreIsMeanRelativeError ==
    (mpc = "done" /\ "mre" \in DOMAIN metric_ret.val) =>
        RatEq(metric_ret.val["mre"], MeanRelativeError(y_target, prediction))

-----------------------------------------------------------------------------
(*                 Properties of CpLayer and the ensembles                 *)

(* C13: in a call of CpLayer.forward none of the three denominators
   T + epsilon, safe_sinh(D/T) + epsilon, safe_cosh(F/T) + epsilon is zero. *)
C13_NoZeroDenominator ==
    (cpc = "done" /\ ens_ret.val.exc = "none") =>
        /\ ~cp_trace.zero_T
        /\ ~cp_trace.zero_sinh
        /\ ~cp_trace.zero_cosh

(* The ratio x / T' clamped to [-20, 20], and the hyperbolic functions of such
   a ratio: within the clamp they are sinh and cosh themselves, and a nan ratio
   stays nan through either branch *)
ClampedRatio(x, Tp) == Clamp(Divide(x, Tp), 20)
SinhOf(r) == IF r = NaN THEN SafeSinh(r) ELSE [f |-> "sinh", x |-> r]
CoshOf(r) == IF r = NaN THEN SafeCosh(r) ELSE [f |-> "cosh", x |-> r]

(* A + B*((C/T')/sinh(C/T'))^2 + D*((E/T')/cosh(E/T'))^2 on the outputs of the
   sub-models, T' the shifted temperature *)
ExpectedCp(A, B, C, D, E, T) ==
    LET Tp == T + 1
        rc == ClampedRatio(C, Tp)
        re == ClampedRatio(E, Tp)
    IN  [f |-> "a+b*(p/q)^2+c*(r/s)^2",
         a |-> A, b |-> B, p |-> rc, q |-> PlusEps(SinhOf(rc)),
         c |-> D, r |-> re, s |-> PlusEps(CoshOf(re))]

HasFiveModels == \A k \in DOMAIN FiveModels : \E j \in DOMAIN model_keys :
                     model_keys[j] = FiveModels[k]

(* C14: a forward pass of either ensemble holding the sub-models A..E calls each
   of them exactly once and returns the closed-form combination of their five
   outputs and T; both classes therefore return the same value for the same
   outputs and T. *)
C14_ForwardCombinesFiveOutputs ==
    (cpc = "done" /\ HasFiveModels) =>
        /\ ens_ret.val.exc = "none"
        /\ \A k \in DOMAIN FiveModels : calls[FiveModels[k]] = 1
        /\ ens_ret.val.val = ExpectedCp(sub_out["A"], sub_out["B"], sub_out["C"],
                                        sub_out["D"], sub_out["E"], global_T)

C14_Witness ==
    /\ cpc = "done" /\ ens_class = "new"
    /\ model_keys = <<"E", "D", "C", "B", "A">>
    /\ sub_out["B"] # sub_out["C"]
    /\ cp_trace.D_over_T = Num(20, 1)
    /\ ens_ret.val.exc = "none"

(* C24: on the same SMILES list and allow-list the two filter_smiles return the
   same SMILES list, whatever the parallel targets, and neither changes the
   lists it was given. *)
C24_FilterImplementationsAgree ==
    /\ []((fpc = "done" /\ load_pc = "done") => load_ret = out_smiles)
    /\ [][/\ smiles' = smiles
          /\ target' = target
          /\ allowed_atoms' = allowed_atoms]_vars

C24_Witness ==
    /\ fpc = "done" /\ load_pc = "done"
    /\ allowed_atoms = None
    /\ Len(smiles) = 3 /\ Len(load_ret) = 2
    /\ \E k \in DOMAIN load_ret : load_ret[k] = "CCO"
    /\ \E k \in DOMAIN smiles : smiles[k] = "[Na]O[Na]"

(* What the call Splitter.train_val_test_split(data, f[0], f[1], f[2]) of the
   named strategy returns: three partitions of that splitter *)
OwnSplitter ==
    [consecutive |-> "ConsecutiveSplitter", random |-> "RandomSplitter",
     molecular_weight |-> "MolecularWeightSplitter", scaffold |-> "ScaffoldSplitter",
     stratified |-> "SingleTaskStratifiedSplitter"]
PartOf(name, part, f) ==
    [splitter |-> OwnSplitter[name], part |-> part, dataset |-> data, frac |-> f]
ConfiguredType == IF split_type = None THEN "random" ELSE split_type.val
ConfiguredFrac == IF split_frac = None THEN <<8, 1, 1>> ELSE split_frac.val

(* C23: an omitted split_type means 'random' and an omitted split_frac means
   [0.8, 0.1, 0.1]; each of the five strategy names calls its own splitter with
   the dataset and the three configured fractions; every other name but
   'custom' raises and yields no partition, in the constructor when split is
   set and in get_splits(). *)
C23_StrategySelectedByName ==
    /\ spc \in {"constructed", "failed"} =>
          /\ self_split_type = Some(ConfiguredType)
          /\ self_split_frac = Some(ConfiguredFrac)
    /\ ConfiguredType \in DOMAIN OwnSplitter =>
          /\ (spc = "constructed" /\ split) =>
                {self_train, self_val, self_test} =
                    {Some(PartOf(ConfiguredType, p, ConfiguredFrac)) :
                        p \in {"train", "val", "test"}}
          /\ splits_ret # None =>
                /\ splits_ret.val.exc = NoExc
                /\ splits_ret.val.ret =
                      Some(<<PartOf(ConfiguredType, "train", ConfiguredFrac),
                             PartOf(ConfiguredType, "val", ConfiguredFrac),
                             PartOf(ConfiguredType, "test", ConfiguredFrac)>>)
    /\ ConfiguredType \notin (DOMAIN OwnSplitter) \cup {"custom"} =>
          /\ self_train = None /\ self_val = None /\ self_test = None
          /\ (split /\ spc # "new") => (spc = "failed" /\ exc # NoExc)
          /\ splits_ret # None =>
                /\ splits_ret.val.exc = Raised("KeyError", ConfiguredType)
                /\ splits_ret.val.ret = None

C23_Witness ==
    /\ spc = "constructed" /\ split
    /\ split_type = Some("scaffold") /\ split_frac = Some(<<6, 2, 2>>)
    /\ Len(data) >= 1
    /\ splits_ret # None

(* C21: the clamped ratios handed to safe_sinh and safe_cosh lie in [-20, 20],
   so torch.where always selects the |x| <= 20 branch and never the
   exponential one. *)
C21_HyperbolicBranchSelected ==
    (cpc = "done" /\ ens_ret.val.exc = "none") =>
        /\ AbsLe(cp_trace.D_over_T, 20)
        /\ AbsLe(cp_trace.F_over_T, 20)
        /\ cp_trace.Cp.q.x.f = "sinh"
        /\ cp_trace.Cp.s.x.f = "cosh"

-----------------------------------------------------------------------------
(*                          Properties of DataSet                          *)

(* C15: without a file_path and without both smiles and target the constructor
   fails with its assertion and no attribute has been set; with a file_path, or
   with both smiles and target, the assertion passes and root is set. *)
C15_ArgumentsAsserted ==
    dpc \in {"failed", "constructed"} =>
        IF file_path = None /\ (ds_smiles = None \/ ds_target = None)
          THEN /\ dpc = "failed"
               /\ ds_exc = Raised("AssertionError", DataSetArgsMsg)
               /\ self_root = None /\ self_data = None
               /\ self_smiles = None /\ self_target = None
          ELSE /\ ds_exc # Raised("AssertionError", DataSetArgsMsg)
               /\ self_root # None

C15_Witness ==
    /\ dpc = "failed" /\ file_path = None
    /\ ds_smiles # None /\ ds_target = None
    /\ ds_exc = Raised("AssertionError", DataSetArgsMsg)

(* y, given as <<numerator, radicand>>, is value t standardised by the mean and
   the standard deviation of the list ts: numerator / len = t - mean and
   radicand / len^2 = mean of squares - mean^2 *)
IsStandardised(y, t, ts) ==
    LET n == Len(ts)
        mean == <<SumSeq(ts), n>>
        meanSq == <<SumSeq([i \in DOMAIN ts |-> ts[i] * ts[i]]), n>>
    IN  /\ RatEq(<<y[1], n>>, RatAdd(<<t, 1>>, <<-mean[1], mean[2]>>))
        /\ RatEq(<<y[2], n * n>>,
                 RatAdd(meanSq, <<-(mean[1] * mean[1]), mean[2] * mean[2]>>))

(* C16: a DataSet built from smiles and targets holds one graph per record that
   survives filter_smiles, in that order, each labelled with the surviving
   target standardised over the surviving targets. *)
C16_OneSamplePerSurvivor ==
    (dpc = "constructed" /\ file_path = None) =>
        LET kept == FilterSmiles(ds_smiles.val, ds_target.val, ds_allowed)
            d == self_data.val
        IN  /\ DataSetLen(d) = Len(kept[1])
            /\ \A i \in 0..(DataSetLen(d) - 1) :
                  /\ DataSetGetItem(d, i).smiles = kept[1][i + 1]
                  /\ DataSetGetItem(d, i).x = GetAtoms(MolFromSmiles(kept[1][i + 1]))
                  /\ IsStandardised(DataSetGetItem(d, i).y, kept[2][i + 1], kept[2])

(* C22: a DataSet loaded from the file that save() wrote has the length and,
   at every index, the sample of the dataset that was saved, and save() leaves
   that dataset's data as they were. *)
C22_SaveLoadRoundTrip ==
    /\ [](/\ lpc # "failed"
          /\ lpc = "loaded" =>
                /\ DataSetLen(loaded_data.val) = DataSetLen(self_data.val)
                /\ \A i \in 0..(DataSetLen(self_data.val) - 1) :
                      DataSetGetItem(loaded_data.val, i)
                          = DataSetGetItem(self_data.val, i))
    /\ [][dpc = "constructed" => self_data' = self_data]_vars

C22_Witness ==
    /\ lpc = "loaded" /\ file_path = None
    /\ saved_path = Some(OldFile)
    /\ DataSetLen(loaded_data.val) = 2
    /\ loaded_data.val[1] # loaded_data.val[2]

C16_Witness ==
    /\ dpc = "constructed" /\ file_path = None
    /\ Len(self_data.val) = 2
    /\ Len(ds_smiles.val) = 3
    /\ self_data.val[1].y # self_data.val[2].y
    /\ \E k \in DOMAIN ds_target.val : ds_target.val[k] # ds_target.val[1]

=============================================================================
